---- MODULE Spec2Model ----
(***************************************************************************)
(* Session-based authentication core of speecher-back: JwtTokenService     *)
(* (token issuance, verification, rotation, revocation over the sessions   *)
(* table), the unified AuthGuard and the sign-out endpoint.                *)
(*                                                                         *)
(* Time is counted in whole seconds, the granularity of the JWT iat/exp    *)
(* claims.  A signed token is the record of everything its string is a     *)
(* function of: the payload, iat, exp and the signing secret.              *)
(***************************************************************************)
EXTENDS Integers, Sequences, FiniteSets, TLC

(* ------------------------------ bounds --------------------------------- *)

\* Last second the clock reaches.
MaxTime == 1

\* Number of session rows ever inserted.
MaxIssue == 2

(* ------------------------------ users ---------------------------------- *)

Users == {"u1", "u2"}

Email(u) == IF u = "u1" THEN "a@x.com" ELSE "b@x.com"

Role(u) == IF u = "u1" THEN "ADMIN" ELSE "CUSTOMER"

NoUser == "<no user>"

(* ----------------------- expiry duration strings ----------------------- *)

\* A configuration string is the sequence of its characters; <<>> is an
\* unset (undefined) value.
Unset == <<>>

Digits == {"0", "1", "2", "3", "4", "5", "6", "7", "8", "9"}

Units == {"s", "m", "h", "d"}

DigitVal(c) ==
    CASE c = "0" -> 0 [] c = "1" -> 1 [] c = "2" -> 2 [] c = "3" -> 3
      [] c = "4" -> 4 [] c = "5" -> 5 [] c = "6" -> 6 [] c = "7" -> 7
      [] c = "8" -> 8 [] c = "9" -> 9

RECURSIVE ParseInt(_)
ParseInt(ds) ==
    IF ds = <<>> THEN 0
    ELSE 10 * ParseInt(SubSeq(ds, 1, Len(ds) - 1)) + DigitVal(ds[Len(ds)])

\* expiry.match(/^(\d+)([smhd])$/)
MatchExpiry(e) ==
    /\ Len(e) >= 2
    /\ \A i \in 1..(Len(e) - 1) : e[i] \in Digits
    /\ e[Len(e)] \in Units

UnitSeconds(u) ==
    CASE u = "s" -> 1 [] u = "m" -> 60 [] u = "h" -> 3600 [] u = "d" -> 86400

\* The seconds a matching duration string stands for.
ExpirySeconds(e) ==
    ParseInt(SubSeq(e, 1, Len(e) - 1)) * UnitSeconds(e[Len(e)])

\* parseExpiry throws on a string that does not match.
Threw == -1

ParseExpiry(e, n) ==
    IF ~MatchExpiry(e) THEN Threw ELSE n + ExpirySeconds(e)

\* configService.get(...) || '15m' and || '7d'
DefaultAccessExpiry == <<"1", "5", "m">>

DefaultRefreshExpiry == <<"7", "d">>

OrDefault(v, d) == IF v = Unset THEN d ELSE v

\* The validation schema: a string matching /^\d+[smhd]$/, '15m' and '7d'
\* when the variable is not set; nothing relates the two values.
Admissible(e) == MatchExpiry(e)

\* The configurations the model starts from: access shorter than refresh,
\* as long as refresh, longer than refresh, and the defaults.
Configs ==
    {[access |-> <<"1", "s">>, refresh |-> <<"2", "s">>],
     [access |-> <<"1", "s">>, refresh |-> <<"1", "s">>],
     [access |-> <<"2", "s">>, refresh |-> <<"1", "s">>],
     [access |-> DefaultAccessExpiry, refresh |-> DefaultRefreshExpiry]}

(* ------------------------------- tokens -------------------------------- *)

AccessSecret == "jwt.secret"

RefreshSecret == "jwt.refreshSecret"

NoToken == [kind |-> "none"]

\* A string that is not a JWT.
Garbage == [kind |-> "garbage"]

\* jwtService.sign(payload, {secret, expiresIn}): the token string is a
\* function of the payload, the second of issue, the expiry and the secret.
Sign(u, email, role, type, secret, n, ttl) ==
    [kind |-> "jwt", userId |-> u, email |-> email, role |-> role,
     type |-> type, iat |-> n, exp |-> n + ttl, key |-> secret]

\* A token with a well-formed payload signed by somebody else.
Forged(u) ==
    [kind |-> "jwt", userId |-> u, email |-> Email(u), role |-> Role(u),
     type |-> "access", iat |-> 0, exp |-> MaxTime + 1, key |-> "attacker"]

NullPayload == [kind |-> "null"]

\* decodeToken: the payload without any check of signature or expiry.
DecodeToken(t) == IF t.kind = "jwt" THEN t ELSE NullPayload

\* jwtService.verify: signature first, then expiry.
JwtVerify(t, secret, n) ==
    IF t.kind # "jwt" \/ t.key # secret THEN "JsonWebTokenError"
    ELSE IF n >= t.exp THEN "TokenExpiredError"
    ELSE "ok"

\* hashToken, were it to return the token string itself.
HashTokenRaw(t) == t

\* hashToken: the SHA-256 digest of the token string.
HashToken(t) == [sha256 |-> t]

(* --------------------------- the sessions table ------------------------ *)

VARIABLES
    cfg,        \* jwt.accessTokenExpiry and jwt.refreshTokenExpiry
    now,        \* the clock, in seconds
    sessions,   \* the rows of the sessions table
    nextId,     \* the id the next inserted row gets
    issued,     \* every token string generateTokens has returned so far
    rotated,    \* the refresh tokens with which a rotation has completed
    last,       \* the last operation and what it answered
    users,      \* the rows of the User table
    accounts,   \* the rows of the oauth_accounts table
    resolving,  \* the signInWithOAuth calls under way, one per process
    inflight    \* the rotations under way, one per process

vars == <<cfg, now, sessions, nextId, issued, rotated, last,
          users, accounts, resolving, inflight>>

\* The tables and calls that the requests taken one at a time leave alone.
signIns == <<users, accounts, resolving>>

NoRow == [id |-> 0]

\* prisma.session.create({data: {...}}): lastUsedAt defaults to the
\* insertion time.
SessionRow(id, u, at, rt, exp, rexp, n) ==
    [id |-> id, userId |-> u, token |-> HashToken(at),
     refreshToken |-> HashToken(rt),
     expiresAt |-> exp, refreshExpiresAt |-> rexp, lastUsedAt |-> n]

\* The unique indexes sessions_token_key and sessions_refreshToken_key.
UniqueViolation(S, row) ==
    \E s \in S : s.token = row.token \/ s.refreshToken = row.refreshToken

\* The access lookup, were it to take any row of the user.
FindByUserOnly(S, u, h) ==
    IF \E s \in S : s.userId = u
    THEN CHOOSE s \in S : s.userId = u
    ELSE NoRow

\* prisma.session.findUnique({where: {userId, token}})
FindByAccessHash(S, u, h) ==
    IF \E s \in S : s.userId = u /\ s.token = h
    THEN CHOOSE s \in S : s.userId = u /\ s.token = h
    ELSE NoRow

\* prisma.session.findUnique({where: {userId, refreshToken}})
FindByRefreshHash(S, u, h) ==
    IF \E s \in S : s.userId = u /\ s.refreshToken = h
    THEN CHOOSE s \in S : s.userId = u /\ s.refreshToken = h
    ELSE NoRow

\* The update, were it to slide the access expiry along with lastUsedAt.
TouchSliding(S, id, n) ==
    {IF s.id = id
     THEN [s EXCEPT !.lastUsedAt = n, !.expiresAt = s.expiresAt + 1]
     ELSE s : s \in S}

\* prisma.session.update({where: {id}, data: {lastUsedAt: new Date()}})
Touch(S, id, n) ==
    {IF s.id = id THEN [s EXCEPT !.lastUsedAt = n] ELSE s : s \in S}

\* prisma.session.delete({where: {id}})
DeleteById(S, id) == {s \in S : s.id # id}

\* A row of the User table and a row of the oauth_accounts table.
UserRow(id, email, role) == [id |-> id, email |-> email, role |-> role]

AccountRow(userId, provider, providerId, email) ==
    [userId |-> userId, provider |-> provider, providerId |-> providerId,
     email |-> email]

\* The processes that serve requests side by side, and one at rest.
Procs == {1, 2}

Idle == [pc |-> "idle"]

\* prisma.user.findUnique({where: {id}}): the users table is fixed here.
FindUser(u) == IF u \in Users THEN u ELSE NoUser

(* ---------------------------- JwtTokenService -------------------------- *)

\* generateTokens: both tokens are signed, the expiry instants computed, and
\* one row inserted; a rejected insert leaves as InternalServerException.
GenerateTokens(S, nid, n, u, email, role) ==
    LET accessExpiry == OrDefault(cfg.access, DefaultAccessExpiry)
        refreshExpiry == OrDefault(cfg.refresh, DefaultRefreshExpiry)
        failed(e) == [err |-> e, sessions |-> S, nextId |-> nid,
                      accessToken |-> NoToken, refreshToken |-> NoToken,
                      accessTokenExpiry |-> Threw,
                      refreshTokenExpiry |-> Threw]
    IN  IF ~MatchExpiry(accessExpiry) \/ ~MatchExpiry(refreshExpiry)
        THEN failed("Error")    \* sign or parseExpiry throws, outside the try
        ELSE
          LET accessToken == Sign(u, email, role, "access", AccessSecret, n,
                                  ExpirySeconds(accessExpiry))
              refreshToken == Sign(u, email, role, "refresh", RefreshSecret,
                                   n, ExpirySeconds(refreshExpiry))
              accessTokenExpiry == ParseExpiry(accessExpiry, n)
              refreshTokenExpiry == ParseExpiry(refreshExpiry, n)
              row == SessionRow(nid, u, accessToken, refreshToken,
                                accessTokenExpiry, refreshTokenExpiry, n)
          IN  IF UniqueViolation(S, row)
              THEN failed("InternalError")   \* create rejects, catch wraps
              ELSE [err |-> "ok", sessions |-> S \cup {row},
                    nextId |-> nid + 1,
                    accessToken |-> accessToken,
                    refreshToken |-> refreshToken,
                    accessTokenExpiry |-> accessTokenExpiry,
                    refreshTokenExpiry |-> refreshTokenExpiry]

\* verifyToken, were it to leave lastUsedAt as it is.
VerifyTokenNoTouch(S, n, token) ==
    LET v == JwtVerify(token, AccessSecret, n)
        failed(e) == [err |-> e, payload |-> NullPayload, sessions |-> S]
    IN  IF v = "TokenExpiredError" THEN failed("TokenExpired")
        ELSE IF v # "ok" THEN failed("Unauthorized")
        ELSE
          LET session == FindByAccessHash(S, token.userId, HashToken(token))
          IN  IF session = NoRow THEN failed("SessionExpired")
              ELSE IF session.expiresAt < n THEN failed("SessionExpired")
              ELSE [err |-> "ok", payload |-> token, sessions |-> S]

\* verifyToken: the signature and expiry of the JWT, then the session row
\* of its hash, then the lastUsedAt update.  An expired JWT leaves as
\* TokenExpiredException, any other failure of jwtService.verify as
\* UnauthorizedException.
VerifyToken(S, n, token) ==
    LET v == JwtVerify(token, AccessSecret, n)
        failed(e) == [err |-> e, payload |-> NullPayload, sessions |-> S]
    IN  IF v = "TokenExpiredError" THEN failed("TokenExpired")
        ELSE IF v # "ok" THEN failed("Unauthorized")
        ELSE
          LET payload == token
              session == FindByAccessHash(S, payload.userId, HashToken(token))
          IN  IF session = NoRow THEN failed("SessionExpired")
              ELSE IF session.expiresAt < n THEN failed("SessionExpired")
              ELSE [err |-> "ok", payload |-> payload,
                    sessions |-> Touch(S, session.id, n)]

\* refreshTokens: any error of jwtService.verify is not an AppException and
\* leaves the catch as InternalServerException; the delete precedes the
\* issuance, whose rejection is returned as it is.
RefreshTokens(S, nid, n, token) ==
    LET v == JwtVerify(token, RefreshSecret, n)
        failed(e) == [err |-> e, sessions |-> S, nextId |-> nid,
                      accessToken |-> NoToken, refreshToken |-> NoToken,
                      accessTokenExpiry |-> Threw,
                      refreshTokenExpiry |-> Threw]
    IN  IF v # "ok" THEN failed("InternalError")
        ELSE IF token.type # "refresh" THEN failed("Unauthorized")
        ELSE
          LET session == FindByRefreshHash(S, token.userId, HashToken(token))
          IN  IF session = NoRow THEN failed("TokenExpired")
              ELSE IF session.refreshExpiresAt < n THEN failed("TokenExpired")
              ELSE GenerateTokens(DeleteById(S, session.id), nid, n,
                                  session.userId, Email(session.userId),
                                  Role(session.userId))

\* revokeToken, were it to answer whether a row was deleted.
RevokeTokenStrict(S, token) ==
    LET hit == {s \in S : s.token = HashToken(token)}
    IN  [result |-> hit # {}, count |-> Cardinality(hit), sessions |-> S \ hit]

\* revokeToken: deleteMany({where: {token}}), true whatever the count.
RevokeToken(S, token) ==
    LET hit == {s \in S : s.token = HashToken(token)}
    IN  [result |-> TRUE, count |-> Cardinality(hit), sessions |-> S \ hit]

\* revokeAllUserTokens, were it to delete one row of the user only.
RevokeAllUserTokensOne(S, u) ==
    LET hit == {s \in S : s.userId = u}
    IN  [err |-> "ok", count |-> IF hit = {} THEN 0 ELSE 1,
         sessions |-> IF hit = {} THEN S ELSE S \ {CHOOSE s \in hit : TRUE}]

\* revokeAllUserTokens: deleteMany({where: {userId}})
RevokeAllUserTokens(S, u) ==
    LET hit == {s \in S : s.userId = u}
    IN  [err |-> "ok", count |-> Cardinality(hit), sessions |-> S \ hit]

(* -------------------------------- AuthGuard ---------------------------- *)

WebClients == {"nextjs-admin", "expo-web"}

ClientTypes == WebClients \cup {"mobile"}

\* A request: its cookies, its headers, and the route's metadata (the
\* isPublic flag of AuthGuardConfig and the handler's name).
Request(ca, cr, ha, hr, client, isPublic, handler) ==
    [cookies |-> [accessToken |-> ca, refreshToken |-> cr],
     headers |-> [authorization |-> ha, xRefreshToken |-> hr,
                  xClientType |-> client],
     isPublic |-> isPublic, handler |-> handler]

\* extractTokenFromRequest: the cookies first, then the header pair, which
\* is read only when both headers are there and then replaces both values.
ExtractTokenFromRequest(req) ==
    IF req.headers.authorization # NoToken /\ req.headers.xRefreshToken # NoToken
    THEN [accessToken |-> req.headers.authorization,
          refreshToken |-> req.headers.xRefreshToken]
    ELSE [accessToken |-> req.cookies.accessToken,
          refreshToken |-> req.cookies.refreshToken]

\* parseExpiryToMs (guard and controller): the cookie's maxAge.
ParseExpiryToMs(e) ==
    IF ~MatchExpiry(e) THEN 15 * 60 * 1000 ELSE ExpirySeconds(e) * 1000

NoCookies == [set |-> FALSE]

\* setAuthCookies
SetAuthCookies(tokens) ==
    [set |-> TRUE,
     accessToken |-> tokens.accessToken,
     refreshToken |-> tokens.refreshToken,
     accessMaxAge |->
         ParseExpiryToMs(OrDefault(cfg.access, DefaultAccessExpiry)),
     refreshMaxAge |->
         ParseExpiryToMs(OrDefault(cfg.refresh, DefaultRefreshExpiry))]

\* clearAuthCookies
ClearedCookies ==
    [set |-> TRUE, accessToken |-> NoToken, refreshToken |-> NoToken,
     accessMaxAge |-> 0, refreshMaxAge |-> 0]

\* What canActivate answers: "allow" or the exception thrown, the user put
\* on the request, the cookies put on the response, the table afterwards,
\* the pair minted by a rotation, and the branch that decided.
GuardResult(out, path, user, cookies, S, nid, minted, sessionExpired) ==
    [out |-> out, path |-> path, user |-> user, cookies |-> cookies,
     sessions |-> S, nextId |-> nid, minted |-> minted,
     sessionExpired |-> sessionExpired]

\* The end of canActivate, were it to leave public routes out.
GuardDenialStrict(req, S, nid, sessionExpired, path) ==
    IF sessionExpired
    THEN GuardResult("SessionExpired", path, NoUser, NoCookies, S, nid, {},
                     TRUE)
    ELSE IF req.handler = "signOut" \/ req.handler = "refreshToken"
    THEN GuardResult("allow", path, NoUser, NoCookies, S, nid, {}, FALSE)
    ELSE GuardResult("Unauthorized", path, NoUser, NoCookies, S, nid, {},
                     FALSE)

\* The end of canActivate, reached when neither token let the request in.
GuardDenial(req, S, nid, sessionExpired, path) ==
    IF sessionExpired
    THEN GuardResult("SessionExpired", path, NoUser, NoCookies, S, nid, {},
                     TRUE)
    ELSE IF req.isPublic \/ req.handler = "signOut"
                         \/ req.handler = "refreshToken"
    THEN GuardResult("allow", path, NoUser, NoCookies, S, nid, {}, FALSE)
    ELSE GuardResult("Unauthorized", path, NoUser, NoCookies, S, nid, {},
                     FALSE)

\* The refresh branch of canActivate: the row of the refresh token's hash;
\* a live row starts a rotation (generateTokens, verifyToken of the new
\* access token, the user, the cookies of a web client, then the delete of
\* the old row), an expired one is deleted.
GuardRefresh(req, S, nid, n, refreshToken, sessionExpired) ==
    LET payload == IF refreshToken # NoToken THEN DecodeToken(refreshToken)
                   ELSE NullPayload
        isWebClient == req.headers.xClientType \in WebClients
        verify(session, newTokens, verified) ==
            IF verified.err # "ok"
            THEN GuardResult(verified.err, "rotation-failed", NoUser,
                             NoCookies, newTokens.sessions, newTokens.nextId,
                             {newTokens.accessToken, newTokens.refreshToken},
                             sessionExpired)
            ELSE GuardResult("allow", "rotated",
                             FindUser(verified.payload.userId),
                             IF isWebClient THEN SetAuthCookies(newTokens)
                             ELSE NoCookies,
                             DeleteById(verified.sessions, session.id),
                             newTokens.nextId,
                             {newTokens.accessToken, newTokens.refreshToken},
                             sessionExpired)
        rotate(session, newTokens) ==
            IF newTokens.err # "ok"
            THEN GuardResult(newTokens.err, "rotation-failed", NoUser,
                             NoCookies, S, nid, {}, sessionExpired)
            ELSE verify(session, newTokens,
                        VerifyToken(newTokens.sessions, n,
                                    newTokens.accessToken))
        found(session) ==
            IF session = NoRow
            THEN GuardDenial(req, S, nid, sessionExpired, "refresh-unknown")
            ELSE IF ~(session.refreshExpiresAt > n)
            THEN GuardDenial(req, DeleteById(S, session.id), nid,
                             sessionExpired, "purged")
            ELSE rotate(session,
                        GenerateTokens(S, nid, n, payload.userId,
                                       payload.email, payload.role))
    IN  IF payload = NullPayload
        THEN GuardDenial(req, S, nid, sessionExpired, "no-refresh-token")
        ELSE found(FindByRefreshHash(S, payload.userId,
                                     HashToken(refreshToken)))

\* canActivate
CanActivate(req, S, nid, n) ==
    LET ex == ExtractTokenFromRequest(req)
        accessToken == ex.accessToken
        refreshToken == ex.refreshToken
        payload == IF accessToken # NoToken THEN DecodeToken(accessToken)
                   ELSE NullPayload
    IN  IF payload = NullPayload
        THEN GuardRefresh(req, S, nid, n, refreshToken, FALSE)
        ELSE IF req.isPublic
        THEN GuardResult("allow", "public-hint", FindUser(payload.userId),
                         NoCookies, S, nid, {}, FALSE)
        ELSE
          LET session == FindByAccessHash(S, payload.userId,
                                          HashToken(accessToken))
          IN  IF session = NoRow
              THEN GuardRefresh(req, S, nid, n, refreshToken, FALSE)
              ELSE IF session.expiresAt <= n
              THEN GuardRefresh(req, S, nid, n, refreshToken, TRUE)
              ELSE GuardResult("allow", "access-valid",
                               FindUser(payload.userId), NoCookies,
                               Touch(S, session.id, n), nid, {}, FALSE)

(* ------------------------ AuthController / AuthService ----------------- *)

\* AuthService.signOut, then AuthController.signOut's cookie clearing.
SignOut(user, client, S) ==
    IF user = NoUser
    THEN [out |-> "Unauthorized", cookies |-> NoCookies, sessions |-> S]
    ELSE [out |-> "ok",
          cookies |-> IF client = "nextjs-admin" THEN ClearedCookies
                      ELSE NoCookies,
          sessions |-> RevokeAllUserTokens(S, user).sessions]

(* ------------------------------ what clients send ---------------------- *)

IssuedAccess == {t \in issued : t.type = "access"}

IssuedRefresh == {t \in issued : t.type = "refresh"}

\* Token strings a caller can hold: every string handed out so far, a string
\* that is no JWT, and a JWT signed with a foreign key.
Presentable == issued \cup {Garbage, Forged("u1")}

AccessInputs == {NoToken, Garbage, Forged("u1")} \cup IssuedAccess

RefreshInputs == {NoToken} \cup IssuedRefresh

\* Web clients carry the tokens in cookies, the others in the header pair.
ClientRequest(a, r, client, isPublic, handler) ==
    IF client \in WebClients
    THEN Request(a, r, NoToken, NoToken, client, isPublic, handler)
    ELSE Request(NoToken, NoToken, a, r, client, isPublic, handler)

\* canActivate for a request arriving now.
Guard(a, r, client, isPublic, handler) ==
    CanActivate(ClientRequest(a, r, client, isPublic, handler),
                sessions, nextId, now)

(* -------------------------------- the machine -------------------------- *)

Init ==
    /\ cfg \in Configs
    /\ Admissible(cfg.access) /\ Admissible(cfg.refresh)
    /\ now = 0
    /\ sessions = {}
    /\ nextId = 1
    /\ issued = {}
    /\ rotated = {}
    /\ last = [op |-> "init"]
    /\ users = {UserRow(u, Email(u), Role(u)) : u \in Users}
    /\ accounts = {AccountRow(u, "GOOGLE", u, Email(u)) : u \in Users}
    /\ resolving = [p \in Procs |-> Idle]
    /\ inflight = [p \in Procs |-> Idle]

\* A second passes.
Tick ==
    /\ now < MaxTime
    /\ now' = now + 1
    /\ last' = [op |-> "tick"]
    /\ UNCHANGED <<cfg, sessions, nextId, issued, rotated, signIns, inflight>>

\* POST /auth/oauth for an identity that resolves to user u: the guard on
\* the public route, then signInWithOAuth's generateTokens.
SignInRequest(u, r, client) ==
    \E g \in {Guard(NoToken, r, client, TRUE, "signInWithOAuth")} :
    \E t \in {GenerateTokens(g.sessions, g.nextId, now, u, Email(u), Role(u))} :
        LET ok == g.out = "allow" /\ t.err = "ok"
            end == IF g.out # "allow" THEN g ELSE t
        IN  /\ end.nextId <= MaxIssue + 1
            /\ sessions' = end.sessions
            /\ nextId' = end.nextId
            /\ issued' = issued \cup g.minted
                            \cup (IF ok THEN {t.accessToken, t.refreshToken}
                                  ELSE {})
            /\ rotated' = rotated
                            \cup (IF g.path = "rotated" THEN {r} ELSE {})
            /\ last' = [op |-> "signInWithOAuth",
                        out |-> IF g.out # "allow" THEN g.out ELSE t.err,
                        path |-> g.path]
            /\ UNCHANGED <<cfg, now, signIns, inflight>>

\* Any other request: the guard alone decides and changes the table.
GuardRequest(a, r, client, isPublic, handler) ==
    \E g \in {Guard(a, r, client, isPublic, handler)} :
        /\ g.nextId <= MaxIssue + 1
        /\ sessions' = g.sessions
        /\ nextId' = g.nextId
        /\ issued' = issued \cup g.minted
        /\ rotated' = rotated \cup (IF g.path = "rotated" THEN {r} ELSE {})
        /\ last' = [op |-> handler, out |-> g.out, path |-> g.path]
        /\ UNCHANGED <<cfg, now, signIns, inflight>>

\* POST /auth/signout: the guard, then the handler if the guard allowed.
SignOutRequest(a, r, client) ==
    \E g \in {Guard(a, r, client, FALSE, "signOut")} :
    \E h \in {SignOut(g.user, client, g.sessions)} :
        /\ g.nextId <= MaxIssue + 1
        /\ sessions' = IF g.out = "allow" THEN h.sessions ELSE g.sessions
        /\ nextId' = g.nextId
        /\ issued' = issued \cup g.minted
        /\ rotated' = rotated \cup (IF g.path = "rotated" THEN {r} ELSE {})
        /\ last' = [op |-> "signOut",
                    out |-> IF g.out = "allow" THEN h.out ELSE g.out,
                    path |-> g.path]
        /\ UNCHANGED <<cfg, now, signIns, inflight>>

\* JwtTokenService.verifyToken called with a token string.
VerifyTokenCall(t) ==
    \E v \in {VerifyToken(sessions, now, t)} :
        /\ sessions' = v.sessions
        /\ last' = [op |-> "verifyToken", out |-> v.err]
        /\ UNCHANGED <<cfg, now, nextId, issued, rotated, signIns, inflight>>

\* JwtTokenService.refreshTokens called with a token string.
RefreshTokensCall(t) ==
    \E f \in {RefreshTokens(sessions, nextId, now, t)} :
        /\ f.nextId <= MaxIssue + 1
        /\ sessions' = f.sessions
        /\ nextId' = f.nextId
        /\ issued' = issued \cup (IF f.err = "ok"
                                  THEN {f.accessToken, f.refreshToken}
                                  ELSE {})
        /\ rotated' = rotated \cup (IF f.err = "ok" THEN {t} ELSE {})
        /\ last' = [op |-> "refreshTokens", out |-> f.err]
        /\ UNCHANGED <<cfg, now, signIns, inflight>>

\* JwtTokenService.revokeToken called with a token string.
RevokeTokenCall(t) ==
    \E k \in {RevokeToken(sessions, t)} :
        /\ sessions' = k.sessions
        /\ last' = [op |-> "revokeToken", out |-> k.result,
                    count |-> k.count, token |-> t]
        /\ UNCHANGED <<cfg, now, nextId, issued, rotated, signIns, inflight>>

\* JwtTokenService.revokeAllUserTokens called for a user.
RevokeAllCall(u) ==
    \E k \in {RevokeAllUserTokens(sessions, u)} :
        /\ sessions' = k.sessions
        /\ last' = [op |-> "revokeAllUserTokens", out |-> k.err,
                    user |-> u, count |-> k.count]
        /\ UNCHANGED <<cfg, now, nextId, issued, rotated, signIns, inflight>>

Next ==
    \/ Tick
    \/ \E u \in Users : \E r \in RefreshInputs : \E c \in ClientTypes :
           SignInRequest(u, r, c)
    \/ \E a \in AccessInputs : \E r \in RefreshInputs : \E c \in ClientTypes :
           GuardRequest(a, r, c, TRUE, "getHello")
    \/ \E a \in AccessInputs : \E r \in RefreshInputs : \E c \in ClientTypes :
           GuardRequest(a, r, c, FALSE, "getCurrentUser")
    \/ \E a \in AccessInputs : \E r \in RefreshInputs : \E c \in ClientTypes :
           SignOutRequest(a, r, c)
    \/ \E t \in Presentable : VerifyTokenCall(t)
    \/ \E t \in Presentable : RefreshTokensCall(t)
    \/ \E t \in Presentable : RevokeTokenCall(t)
    \/ \E u \in Users : RevokeAllCall(u)

Spec == Init /\ [][Next]_vars

(* ------------------------------- the claims ---------------------------- *)

\* The exceptions with which the guard turns a request away.
Denials == {"Unauthorized", "SessionExpired", "TokenExpired"}

RowIds(S) == {s.id : s \in S}

\* The rows a token string resolves to, by the lookups of the guard.
AccessRowOf(S, t) ==
    IF t.kind = "jwt" THEN FindByAccessHash(S, t.userId, HashToken(t))
    ELSE NoRow

RefreshRowOf(S, t) ==
    IF t.kind = "jwt" THEN FindByRefreshHash(S, t.userId, HashToken(t))
    ELSE NoRow

\* C1: on a non-public route, when the access token's row exists with
\* expiresAt passed (expiresAt <= now, the guard's own test) and the refresh
\* token's row exists with refreshExpiresAt still ahead, the guard allows the
\* request, deletes the old row, leaves exactly one new row of the same
\* user, and for the web clients sets the cookies to the new pair.
C1_GuardRotation ==
    \A a \in IssuedAccess, r \in IssuedRefresh, c \in ClientTypes :
        LET sa == AccessRowOf(sessions, a)
            sr == RefreshRowOf(sessions, r)
            g == Guard(a, r, c, FALSE, "getCurrentUser")
            new == {s \in g.sessions : s.id \notin RowIds(sessions)}
        IN  (/\ sa # NoRow /\ sa.expiresAt <= now
             /\ sr # NoRow /\ sr.refreshExpiresAt > now)
            => /\ g.out = "allow"
               /\ sr.id \notin RowIds(g.sessions)
               /\ Cardinality(new) = 1
               /\ \A s \in new : s.userId = r.userId
               /\ c \in WebClients =>
                     /\ g.cookies.set
                     /\ {g.cookies.accessToken, g.cookies.refreshToken}
                            = g.minted

\* C2: a refresh token is single-use: once a rotation with R has completed
\* (refreshTokens or the guard), every later rotation attempt with R fails
\* and creates no row, in refreshTokens and in the guard alike.  This is the
\* claim in its weakest reading: any failure of refreshTokens is accepted,
\* not TokenExpired alone.
C2_RefreshSingleUse ==
    \A R \in rotated :
        LET f == RefreshTokens(sessions, nextId, now, R)
        IN  /\ f.err # "ok"
            /\ f.nextId = nextId
            /\ \A a \in AccessInputs, c \in ClientTypes :
                   LET g == Guard(a, R, c, FALSE, "getCurrentUser")
                   IN  g.path # "rotated" /\ g.nextId = nextId

\* C3: on a non-public route, when the access token is invalid or its row
\* is expired and the refresh token's row has refreshExpiresAt passed, the
\* guard denies with TokenExpired and that row is deleted.  Stated for the
\* rows whose access expiry does not exceed their refresh expiry.
C3_RefreshExpiredDenied ==
    \A a \in AccessInputs \ {NoToken}, r \in IssuedRefresh,
       c \in ClientTypes :
        LET sa == AccessRowOf(sessions, a)
            sr == RefreshRowOf(sessions, r)
            g == Guard(a, r, c, FALSE, "getCurrentUser")
        IN  (/\ sa = NoRow \/ sa.expiresAt <= now
             /\ sr # NoRow /\ sr.refreshExpiresAt <= now
             /\ sr.expiresAt <= sr.refreshExpiresAt)
            => /\ g.out = "TokenExpired"
               /\ sr.id \notin RowIds(g.sessions)

C5_SignOutAlwaysSucceeds ==
    \A a \in AccessInputs, r \in RefreshInputs, c \in ClientTypes :
        LET g == Guard(a, r, c, FALSE, "signOut")
        IN  /\ g.out = "allow"
            /\ SignOut(g.user, c, g.sessions).out = "ok"

\* C6: once revokeAllUserTokens(u) has completed, no row of u is left, and
\* every token issued to u before it is rejected by verifyToken, by
\* refreshTokens and, on a non-public route, by the guard.
C6_GlobalSignOut ==
    /\ last.op = "revokeAllUserTokens" =>
           \A s \in sessions : s.userId # last.user
    /\ \A u \in Users :
           LET S == RevokeAllUserTokens(sessions, u).sessions
               mine == {t \in issued : t.userId = u}
           IN  /\ \A s \in S : s.userId # u
               /\ \A t \in mine :
                      /\ VerifyToken(S, now, t).err # "ok"
                      /\ RefreshTokens(S, nextId, now, t).err # "ok"
               /\ \A a \in mine \cup {NoToken}, r \in mine \cup {NoToken},
                     c \in ClientTypes :
                      LET g == CanActivate(
                                   ClientRequest(a, r, c, FALSE,
                                                 "getCurrentUser"),
                                   S, nextId, now)
                      IN  g.out \in Denials /\ g.sessions = S

\* revokeAllUserTokens has just deleted two sessions of a user who holds
\* issued tokens.
WitnessC6 ==
    /\ last.op = "revokeAllUserTokens"
    /\ last.count = 2
    /\ \E t \in issued : t.userId = last.user

\* C7: round trip: the access token generateTokens(u, email, role) returns
\* is accepted by verifyToken at every instant before its expiry while its
\* row is stored, with payload.userId = u, and the row's lastUsedAt is set
\* to the instant of the call.
C7_RoundTrip ==
    /\ \A u \in Users :
           LET g == GenerateTokens(sessions, nextId, now, u, Email(u), Role(u))
           IN  g.err = "ok" =>
                 \A n \in now .. (MaxTime + 1) :
                     n < g.accessTokenExpiry =>
                       LET v == VerifyToken(g.sessions, n, g.accessToken)
                       IN  /\ v.err = "ok"
                           /\ v.payload.userId = u
                           /\ \E s \in v.sessions :
                                  /\ s.id = nextId /\ s.userId = u
                                  /\ s.lastUsedAt = n
    /\ \A t \in IssuedAccess :
           (AccessRowOf(sessions, t) # NoRow /\ now < t.exp) =>
             LET v == VerifyToken(sessions, now, t)
             IN  /\ v.err = "ok"
                 /\ v.payload.userId = t.userId
                 /\ AccessRowOf(v.sessions, t).lastUsedAt = now

\* verifyToken has just accepted a token in a second later than its issue
\* and stamped its row.
WitnessC7 ==
    /\ last.op = "verifyToken"
    /\ last.out = "ok"
    /\ now > 0
    /\ \E t \in IssuedAccess :
           /\ t.iat < now
           /\ AccessRowOf(sessions, t) # NoRow
           /\ AccessRowOf(sessions, t).lastUsedAt = now

\* C8: every row generateTokens creates has expiresAt <= refreshExpiresAt,
\* and the pair it returns has accessTokenExpiry <= refreshTokenExpiry,
\* under every admissible configuration.
C8_ExpiryOrdering ==
    /\ \A s \in sessions : s.expiresAt <= s.refreshExpiresAt
    /\ \A u \in Users :
           LET g == GenerateTokens(sessions, nextId, now, u, Email(u), Role(u))
           IN  g.err = "ok" => g.accessTokenExpiry <= g.refreshTokenExpiry

\* C9: the token and refreshToken fields of every stored row are outputs of
\* hashToken, and none equals a token string that was issued.
C9_NoRawTokenStored ==
    \A s \in sessions :
        /\ \E t \in IssuedAccess : s.token = HashToken(t)
        /\ \E t \in IssuedRefresh : s.refreshToken = HashToken(t)
        /\ s.token \notin issued
        /\ s.refreshToken \notin issued

\* A sign-in has just stored a row and handed out its pair.
WitnessC9 ==
    /\ last.op = "signInWithOAuth"
    /\ last.out = "ok"
    /\ \E s \in sessions, t \in IssuedAccess : s.token = HashToken(t)

\* C10: revokeToken(t) called twice returns true both times; the first call
\* removes the rows matching t, the second deletes none and leaves the table
\* as it is; for a token with no row the first call is already so.
C10_RevokeIdempotent ==
    \A t \in Presentable :
        LET r1 == RevokeToken(sessions, t)
            r2 == RevokeToken(r1.sessions, t)
        IN  /\ r1.result = TRUE
            /\ r1.sessions = {s \in sessions : s.token # HashToken(t)}
            /\ r1.count = Cardinality(sessions \ r1.sessions)
            /\ r2.result = TRUE
            /\ r2.count = 0
            /\ r2.sessions = r1.sessions

\* revokeToken has just answered true, deleting nothing, for an issued
\* access token whose row was already gone.
WitnessC10 ==
    /\ last.op = "revokeToken"
    /\ last.out = TRUE
    /\ last.count = 0
    /\ last.token \in IssuedAccess

\* The table in which row s stores, in both hash columns, the digest of
\* token string t: the hash of t is assumed equal to the hash s was created
\* with.  The unique indexes admit no second row with that digest.
Colliding(S, s, t) ==
    {x \in S : /\ x.id # s.id
               /\ x.token # HashToken(t)
               /\ x.refreshToken # HashToken(t)}
        \cup {[s EXCEPT !.token = HashToken(t),
                        !.refreshToken = HashToken(t)]}

\* The row of s in a table, by its id.
RowById(S, id) == {x \in S : x.id = id}

\* verifyToken, refreshTokens and the guard's two lookups never accept
\* the token of one user on the strength of another user's row, and leave
\* that row as it is, even when the hashes are equal.
C11_LookupsScoped ==
    \A s \in sessions : \A t \in issued :
        t.userId # s.userId =>
            LET S2 == Colliding(sessions, s, t)
                v == VerifyToken(S2, now, t)
                f == RefreshTokens(S2, nextId, now, t)
                g == CanActivate(Request(NoToken, NoToken, t, t, "mobile",
                                         FALSE, "getCurrentUser"),
                                 S2, nextId, now)
            IN  /\ v.err # "ok" /\ v.sessions = S2
                /\ f.err # "ok" /\ f.sessions = S2
                /\ g.out # "allow" /\ g.sessions = S2

\* C11: every operation that reads or deletes a session by token hash
\* (the guard's access and refresh lookups, verifyToken, refreshTokens,
\* revokeToken) is scoped by the userId of the token: a row of user A is
\* never accepted for, nor touched or deleted by, a request that carries a
\* token of user B, even if the two tokens' hashes are assumed equal.
C11_UserScoped ==
    \A s \in sessions : \A t \in issued :
        t.userId # s.userId =>
            LET S2 == Colliding(sessions, s, t)
            IN  /\ C11_LookupsScoped
                /\ RowById(RevokeToken(S2, t).sessions, s.id)
                       = RowById(S2, s.id)

(* -------------------- signInWithOAuth, call by call -------------------- *)

NoEmail == "<no email>"

\* What verifyOAuthToken answers for the id tokens clients send: two
\* identities whose emails differ by case only, a third one, and one that
\* carries no email.
Identities ==
    {[provider |-> "GOOGLE", providerId |-> "g123", email |-> "A@x.com"],
     [provider |-> "APPLE", providerId |-> "a456", email |-> "a@x.com"],
     [provider |-> "GOOGLE", providerId |-> "g789", email |-> "b@x.com"],
     [provider |-> "APPLE", providerId |-> "a000", email |-> NoEmail]}

\* String.prototype.toLowerCase on the emails above.
ToLowerCase(e) ==
    CASE e = "A@x.com" -> "a@x.com"
      [] e = "B@x.com" -> "b@x.com"
      [] OTHER -> e

NoAccount == [userId |-> NoUser]

NoUserRow == [id |-> NoUser]

\* prisma.oAuthAccount.findUnique({where: {provider_providerId}})
FindAccount(A, provider, providerId) ==
    IF \E a \in A : a.provider = provider /\ a.providerId = providerId
    THEN CHOOSE a \in A : a.provider = provider /\ a.providerId = providerId
    ELSE NoAccount

\* prisma.user.findUnique({where: {email}})
FindUserByEmail(U, email) ==
    IF \E u \in U : u.email = email
    THEN CHOOSE u \in U : u.email = email
    ELSE NoUserRow

\* The user of an account (include: {user: true}).
UserOf(U, a) == CHOOSE u \in U : u.id = a.userId

\* The id a new User row gets: one no row has yet.
FreeUserIds(U) == Users \ {u.id : u \in U}

\* The call of process p has ended with out; what it found at its start
\* and what it created are kept for the record.
SignInEnds(p, out, identity, user, found, made) ==
    /\ resolving' = [resolving EXCEPT ![p] = Idle]
    /\ last' = [op |-> "signInWithOAuth", out |-> out,
                identity |-> identity, user |-> user, found |-> found,
                made |-> made]

\* signInWithOAuth up to the first lookup: the verified identity must
\* carry an email, then the oauth_accounts row of (provider, providerId).
\* The request carries no token, so the guard lets it into the public
\* route without touching a table.
OAuthLookup(p, identity) ==
    /\ resolving[p] = Idle
    /\ IF identity.email = NoEmail
       THEN SignInEnds(p, "ValidationError", identity, NoUser, "nothing",
                       <<0, 0>>)
       ELSE \E a \in {FindAccount(accounts, identity.provider,
                                  identity.providerId)} :
              /\ resolving' = [resolving EXCEPT ![p] =
                    IF a # NoAccount
                    THEN [pc |-> "resolved", identity |-> identity,
                          user |-> UserOf(users, a), found |-> "account",
                          made |-> <<0, 0>>]
                    ELSE [pc |-> "findUser", identity |-> identity,
                          user |-> NoUserRow, found |-> "nothing",
                          made |-> <<0, 0>>]]
              /\ last' = last
    /\ UNCHANGED <<cfg, now, sessions, nextId, issued, rotated, users,
                   accounts, inflight>>

\* The lookup of the user by lowercased email.
OAuthFindUser(p) ==
    /\ resolving[p].pc = "findUser"
    /\ \E u \in {FindUserByEmail(users,
                                 ToLowerCase(resolving[p].identity.email))} :
          resolving' = [resolving EXCEPT ![p] =
              [@ EXCEPT !.pc = "create", !.user = u,
                        !.found = IF u # NoUserRow THEN "user"
                                  ELSE "nothing"]]
    /\ UNCHANGED <<cfg, now, sessions, nextId, issued, rotated, last, users,
                   accounts, inflight>>

\* The create: the account alone for a user found by email, else the user
\* together with its first account in one nested create.  A create that
\* a unique index rejects throws, and the catch of signInWithOAuth wraps
\* the error into InternalServerException.
OAuthCreate(p) ==
    LET r == resolving[p]
        identity == r.identity
        dupAccount == FindAccount(accounts, identity.provider,
                                  identity.providerId) # NoAccount
        dupEmail == FindUserByEmail(users, ToLowerCase(identity.email))
                        # NoUserRow
    IN  /\ r.pc = "create"
        /\ IF r.user # NoUserRow
           THEN IF dupAccount
                THEN /\ SignInEnds(p, "InternalError", identity, r.user.id,
                                   r.found, <<0, 0>>)
                     /\ UNCHANGED <<users, accounts>>
                ELSE /\ accounts' = accounts \cup
                            {AccountRow(r.user.id, identity.provider,
                                        identity.providerId, identity.email)}
                     /\ resolving' = [resolving EXCEPT ![p] =
                            [@ EXCEPT !.pc = "resolved", !.made = <<0, 1>>]]
                     /\ UNCHANGED <<users, last>>
           ELSE IF dupEmail \/ dupAccount
                THEN /\ SignInEnds(p, "InternalError", identity, NoUser,
                                   r.found, <<0, 0>>)
                     /\ UNCHANGED <<users, accounts>>
                ELSE \E id \in FreeUserIds(users) :
                     \E u \in {UserRow(id, ToLowerCase(identity.email),
                                       "CUSTOMER")} :
                       /\ users' = users \cup {u}
                       /\ accounts' = accounts \cup
                              {AccountRow(id, identity.provider,
                                          identity.providerId,
                                          identity.email)}
                       /\ resolving' = [resolving EXCEPT ![p] =
                              [@ EXCEPT !.pc = "resolved", !.user = u,
                                        !.made = <<1, 1>>]]
                       /\ last' = last
        /\ UNCHANGED <<cfg, now, sessions, nextId, issued, rotated, inflight>>

\* The rest of signInWithOAuth: the profile update, which leaves id, email
\* and role as they are, then generateTokens for the resolved user.
OAuthIssue(p) ==
    LET r == resolving[p]
    IN  /\ r.pc = "resolved"
        /\ \E t \in {GenerateTokens(sessions, nextId, now, r.user.id,
                                    r.user.email, r.user.role)} :
              /\ t.nextId <= MaxIssue + 1
              /\ sessions' = t.sessions
              /\ nextId' = t.nextId
              /\ issued' = issued \cup (IF t.err = "ok"
                                        THEN {t.accessToken, t.refreshToken}
                                        ELSE {})
              /\ SignInEnds(p, t.err, r.identity, r.user.id, r.found, r.made)
        /\ UNCHANGED <<cfg, now, rotated, users, accounts, inflight>>

InitOAuth ==
    /\ cfg \in Configs
    /\ Admissible(cfg.access) /\ Admissible(cfg.refresh)
    /\ now = 0
    /\ sessions = {}
    /\ nextId = 1
    /\ issued = {}
    /\ rotated = {}
    /\ last = [op |-> "init"]
    /\ users = {}
    /\ accounts = {}
    /\ resolving = [p \in Procs |-> Idle]
    /\ inflight = [p \in Procs |-> Idle]

NextOAuth ==
    \/ Tick
    \/ \E p \in Procs : \E i \in Identities : OAuthLookup(p, i)
    \/ \E p \in Procs : OAuthFindUser(p)
    \/ \E p \in Procs : OAuthCreate(p)
    \/ \E p \in Procs : OAuthIssue(p)

SpecOAuth == InitOAuth /\ [][NextOAuth]_vars

\* No duplicates: a (provider, providerId) pair has at most one account
\* row and so at most one User, a lowercased email at most one User, and
\* every account belongs to a User.
C12_NoDuplicates ==
    /\ \A a, b \in accounts :
           (a.provider = b.provider /\ a.providerId = b.providerId) => a = b
    /\ \A u, v \in users :
           (ToLowerCase(u.email) = ToLowerCase(v.email) \/ u.id = v.id)
               => u = v
    /\ \A a \in accounts : \E u \in users : u.id = a.userId

\* A sign-in with an identity whose account exists resolves to the user of
\* that account, and fails only in generateTokens, when a session of this
\* user was already issued within the same second.
C12_SameUserResolved ==
    (last.op = "signInWithOAuth" /\ last.found = "account") =>
        /\ last.user = FindAccount(accounts, last.identity.provider,
                                   last.identity.providerId).userId
        /\ last.out # "ok" =>
               \E t \in issued : t.userId = last.user /\ t.iat = now

\* C12: identity resolution creates no duplicates: after any sequence or
\* interleaving of signInWithOAuth calls each (provider, providerId) pair
\* is linked to at most one User and each lowercased email belongs to at
\* most one User; a successful first sign-in of an identity that is
\* unknown by account and by email has created exactly one User and one
\* OAuthAccount; and every repeated sign-in, one whose identity already
\* has its account, succeeds and returns the User of that account.
C12_IdentityResolution ==
    /\ C12_NoDuplicates
    /\ last.op = "signInWithOAuth" =>
          /\ (last.found = "nothing" /\ last.out = "ok")
                 => last.made = <<1, 1>>
          /\ last.found = "account" =>
                 /\ last.out = "ok"
                 /\ last.user = FindAccount(accounts, last.identity.provider,
                                            last.identity.providerId).userId

(* ------------------------ rotations, step by step ---------------------- *)

\* Last second the clock reaches, and number of session rows ever
\* inserted, while rotations run side by side: one sign-in and two
\* rotations of the same user need three rows and three seconds.
MaxRaceTime == 2

MaxRaceIssue == 3

\* The rotations raced here are those of one user, from one web client and
\* one that is not, under a configuration whose refresh tokens expire
\* within the run and one whose refresh tokens outlive it.
RaceUsers == {"u1"}

RaceClients == {"expo-web", "mobile"}

NoPair == [accessToken |-> NoToken, refreshToken |-> NoToken]

\* prisma.session.delete({where: {id}}): a row that is not there makes the
\* call throw (record to delete does not exist).
DeleteRow(S, id) ==
    IF \E s \in S : s.id = id
    THEN [err |-> "ok", sessions |-> DeleteById(S, id)]
    ELSE [err |-> "RecordNotFound", sessions |-> S]

\* A rotation under way, each process serving one: where it stands, which
\* operation it is ("guard" for canActivate, "refreshTokens" for the
\* service call), the refresh
\* token and client type it came with, the id of the row its lookup
\* returned, the pair it has minted, the cookies it has put on the
\* response, what it answered, and whether its delete found the row gone.
Flight(pc, kind, token, client, session, pair, cookies, out, gone) ==
    [pc |-> pc, kind |-> kind, token |-> token, client |-> client,
     session |-> session, pair |-> pair, cookies |-> cookies, out |-> out,
     gone |-> gone]

\* The rotation has ended with out.
Landed(f, out) == [f EXCEPT !.pc = "done", !.out = out]

\* canActivate on a non-public route for a request with a refresh token
\* and no access token, up to the answer of the refresh lookup: no row
\* ends in the denial, an expired row is to be deleted, a live one starts
\* the rotation.
GuardLookup(p) ==
    /\ inflight[p] = Idle
    /\ \E r \in IssuedRefresh : \E client \in RaceClients :
       \E session \in {RefreshRowOf(sessions, r)} :
       \E f \in {Flight("idle", "guard", r, client, session.id, NoPair,
                        NoCookies, "none", FALSE)} :
          inflight' = [inflight EXCEPT ![p] =
              IF session = NoRow
              THEN Landed(f, GuardDenial(
                       ClientRequest(NoToken, r, client, FALSE,
                                     "getCurrentUser"),
                       sessions, nextId, FALSE, "refresh-unknown").out)
              ELSE IF session.refreshExpiresAt > now
              THEN [f EXCEPT !.pc = "generate"]
              ELSE [f EXCEPT !.pc = "purge"]]
    /\ UNCHANGED <<cfg, now, sessions, nextId, issued, rotated, last,
                   signIns>>

\* The delete of the expired row, then the denial.
GuardPurge(p) ==
    LET f == inflight[p]
    IN  /\ f.pc = "purge"
        /\ \E d \in {DeleteRow(sessions, f.session)} :
              /\ sessions' = d.sessions
              /\ inflight' = [inflight EXCEPT ![p] =
                    IF d.err # "ok"
                    THEN [Landed(f, "Error") EXCEPT !.gone = TRUE]
                    ELSE Landed(f, GuardDenial(
                             ClientRequest(NoToken, f.token, f.client, FALSE,
                                           "getCurrentUser"),
                             d.sessions, nextId, FALSE, "purged").out)]
        /\ UNCHANGED <<cfg, now, nextId, issued, rotated, last, signIns>>

\* generateTokens with the payload of the refresh token.
GuardGenerate(p) ==
    LET f == inflight[p]
    IN  /\ f.pc = "generate"
        /\ \E t \in {GenerateTokens(sessions, nextId, now, f.token.userId,
                                    f.token.email, f.token.role)} :
              /\ t.nextId <= MaxRaceIssue + 1
              /\ sessions' = t.sessions
              /\ nextId' = t.nextId
              /\ issued' = issued \cup (IF t.err = "ok"
                                        THEN {t.accessToken, t.refreshToken}
                                        ELSE {})
              /\ inflight' = [inflight EXCEPT ![p] =
                    IF t.err # "ok" THEN Landed(f, t.err)
                    ELSE [f EXCEPT !.pc = "verify",
                                   !.pair = [accessToken |-> t.accessToken,
                                             refreshToken |-> t.refreshToken]]]
        /\ UNCHANGED <<cfg, now, rotated, last, signIns>>

\* verifyToken of the new access token, the user, and for a web client
\* the cookies.
GuardVerify(p) ==
    LET f == inflight[p]
    IN  /\ f.pc = "verify"
        /\ \E v \in {VerifyToken(sessions, now, f.pair.accessToken)} :
              /\ sessions' = v.sessions
              /\ inflight' = [inflight EXCEPT ![p] =
                    IF v.err # "ok" THEN Landed(f, v.err)
                    ELSE [f EXCEPT !.pc = "delete",
                                   !.cookies = IF f.client \in WebClients
                                               THEN SetAuthCookies(f.pair)
                                               ELSE NoCookies]]
        /\ UNCHANGED <<cfg, now, nextId, issued, rotated, last, signIns>>

\* The delete of the old row, then return true.  Nothing catches the
\* error of a delete that finds no row: it leaves canActivate as it is.
GuardDelete(p) ==
    LET f == inflight[p]
    IN  /\ f.pc = "delete"
        /\ \E d \in {DeleteRow(sessions, f.session)} :
              /\ sessions' = d.sessions
              /\ rotated' = rotated \cup (IF d.err = "ok" THEN {f.token}
                                          ELSE {})
              /\ inflight' = [inflight EXCEPT ![p] =
                    IF d.err # "ok"
                    THEN [Landed(f, "Error") EXCEPT !.gone = TRUE]
                    ELSE Landed(f, "allow")]
        /\ UNCHANGED <<cfg, now, nextId, issued, last, signIns>>

\* refreshTokens up to the answer of the lookup and the test of
\* refreshExpiresAt.
RefreshLookup(p) ==
    /\ inflight[p] = Idle
    /\ \E r \in IssuedRefresh :
       \E v \in {JwtVerify(r, RefreshSecret, now)} :
       \E session \in {RefreshRowOf(sessions, r)} :
       \E f \in {Flight("idle", "refreshTokens", r, "none", session.id,
                        NoPair, NoCookies, "none", FALSE)} :
          inflight' = [inflight EXCEPT ![p] =
              IF v # "ok" THEN Landed(f, "InternalError")
              ELSE IF r.type # "refresh" THEN Landed(f, "Unauthorized")
              ELSE IF session = NoRow THEN Landed(f, "TokenExpired")
              ELSE IF session.refreshExpiresAt < now
              THEN Landed(f, "TokenExpired")
              ELSE [f EXCEPT !.pc = "rt-delete"]]
    /\ UNCHANGED <<cfg, now, sessions, nextId, issued, rotated, last,
                   signIns>>

\* The delete of the old row; its error is caught and wrapped into
\* InternalServerException.
RefreshDelete(p) ==
    LET f == inflight[p]
    IN  /\ f.pc = "rt-delete"
        /\ \E d \in {DeleteRow(sessions, f.session)} :
              /\ sessions' = d.sessions
              /\ inflight' = [inflight EXCEPT ![p] =
                    IF d.err # "ok"
                    THEN [Landed(f, "InternalError") EXCEPT !.gone = TRUE]
                    ELSE [f EXCEPT !.pc = "rt-generate"]]
        /\ UNCHANGED <<cfg, now, nextId, issued, rotated, last, signIns>>

\* generateTokens for the user of the old row.
RefreshGenerate(p) ==
    LET f == inflight[p]
    IN  /\ f.pc = "rt-generate"
        /\ \E t \in {GenerateTokens(sessions, nextId, now, f.token.userId,
                                    Email(f.token.userId),
                                    Role(f.token.userId))} :
              /\ t.nextId <= MaxRaceIssue + 1
              /\ sessions' = t.sessions
              /\ nextId' = t.nextId
              /\ issued' = issued \cup (IF t.err = "ok"
                                        THEN {t.accessToken, t.refreshToken}
                                        ELSE {})
              /\ rotated' = rotated \cup (IF t.err = "ok" THEN {f.token}
                                          ELSE {})
              /\ inflight' = [inflight EXCEPT ![p] =
                    IF t.err # "ok" THEN Landed(f, t.err)
                    ELSE [Landed(f, "ok") EXCEPT
                              !.pair = [accessToken |-> t.accessToken,
                                        refreshToken |-> t.refreshToken]]]
        /\ UNCHANGED <<cfg, now, last, signIns>>

\* A second passes while rotations are under way.
RaceTick ==
    /\ now < MaxRaceTime
    /\ now' = now + 1
    /\ UNCHANGED <<cfg, sessions, nextId, issued, rotated, last, signIns,
                   inflight>>

InitRace ==
    /\ Init
    /\ cfg.access = <<"1", "s">> \/ cfg.access = DefaultAccessExpiry
    /\ cfg.refresh = <<"1", "s">> \/ cfg.refresh = DefaultRefreshExpiry

NextRace ==
    \/ RaceTick
    \/ \E u \in RaceUsers : SignInRequest(u, NoToken, "mobile")
    \/ \E u \in RaceUsers : RevokeAllCall(u)
    \/ \E p \in Procs : GuardLookup(p)
    \/ \E p \in Procs : GuardPurge(p)
    \/ \E p \in Procs : GuardGenerate(p)
    \/ \E p \in Procs : GuardVerify(p)
    \/ \E p \in Procs : GuardDelete(p)
    \/ \E p \in Procs : RefreshLookup(p)
    \/ \E p \in Procs : RefreshDelete(p)
    \/ \E p \in Procs : RefreshGenerate(p)

SpecRace == InitRace /\ [][NextRace]_vars

\* A rotation that ended well: canActivate returned true, refreshTokens
\* returned a pair.
Succeeded(f) == f.pc = "done" /\ f.out \in {"allow", "ok"}

\* Both processes have run a rotation to its end, and both lookups returned
\* the same row: each passed the lookup and the expiry test before the
\* other deleted.
Raced ==
    /\ inflight[1].pc = "done" /\ inflight[2].pc = "done"
    /\ inflight[1].session # NoRow.id
    /\ inflight[1].session = inflight[2].session

\* The row of the pair a rotation minted is in the table.
NewLive(f) ==
    /\ f.pair # NoPair
    /\ \E s \in sessions : s.token = HashToken(f.pair.accessToken)

\* Of two rotations that passed the lookup on the same row, at most one
\* ends well.
C13_NeverBothSucceed ==
    Raced => ~(Succeeded(inflight[1]) /\ Succeeded(inflight[2]))

\* C13: the double-refresh race: two concurrent rotations with the same
\* refresh token (in the guard or in refreshTokens) that both pass the
\* lookup and expiry check before either deletes the row both complete
\* successfully, leaving two new live sessions.  Stated for the runs the
\* claim is about: whenever two rotations that passed the lookup on the
\* same row have left two new live sessions, both have completed
\* successfully.
C13_DoubleRefresh ==
    (/\ Raced
     /\ NewLive(inflight[1]) /\ NewLive(inflight[2])
     /\ inflight[1].pair # inflight[2].pair)
        => (Succeeded(inflight[1]) /\ Succeeded(inflight[2]))

\* C14: when another request has deleted the session row between a
\* rotation's successful refresh-hash lookup and its own delete, the
\* rotation's delete is a no-op and the rotation completes without error.
C14_DeleteIdempotent ==
    \A p \in Procs :
        (inflight[p].pc = "done" /\ inflight[p].gone)
            => Succeeded(inflight[p])

\* C16: in every canActivate execution that ends by throwing (a denial or
\* any failure of the rotation, the failing delete of the old session
\* included) no cookie has been set on the response.
C16_NoCookieOnThrow ==
    \A p \in Procs :
        (/\ inflight[p].pc = "done" /\ inflight[p].kind = "guard"
         /\ inflight[p].out # "allow")
            => inflight[p].cookies = NoCookies

\* C15: when a request carries both cookies and both headers of the pair
\* (Authorization and x-refresh-token), the guard uses the cookie values;
\* the header pair is used only as a fallback, when the cookies are absent.
C15_CookiePrecedence ==
    \A ca, cr, ha, hr \in Presentable : \A c \in ClientTypes :
        /\ ExtractTokenFromRequest(
               Request(ca, cr, ha, hr, c, FALSE, "getCurrentUser"))
             = [accessToken |-> ca, refreshToken |-> cr]
        /\ ExtractTokenFromRequest(
               Request(NoToken, NoToken, ha, hr, c, FALSE, "getCurrentUser"))
             = [accessToken |-> ha, refreshToken |-> hr]

\* The tokens canActivate hands to the client: those of the cookies it
\* set.  It writes nothing else to the request or the response but
\* request.user.
HandedBack(g) ==
    IF g.cookies = NoCookies THEN {}
    ELSE {g.cookies.accessToken, g.cookies.refreshToken} \ {NoToken}

\* C17: when the guard rotates for a client that is not a web client it
\* writes no cookie and hands the new pair back, so that the client can
\* obtain it; after any rotation by the guard the client can authenticate
\* its next request with credentials it has received: some pair among the
\* tokens issued to clients before and those handed back now is allowed.
C17_RotationHandsBack ==
    \A a \in AccessInputs, r \in IssuedRefresh, c \in ClientTypes :
        \A g \in {Guard(a, r, c, FALSE, "getCurrentUser")} :
            g.path = "rotated" =>
                LET held == (issued \cup HandedBack(g)) \cup {NoToken}
                IN  /\ c \notin WebClients =>
                           /\ g.cookies = NoCookies
                           /\ g.minted \subseteq HandedBack(g)
                    /\ \E a2, r2 \in held :
                           /\ CanActivate(
                                  ClientRequest(a2, r2, c, FALSE,
                                                "getCurrentUser"),
                                  g.sessions, g.nextId, now).out = "allow"

\* C18: sign-out of a signed-in user clears the cookies for every web
\* client type (nextjs-admin and expo-web) and for no other.
C18_SignOutClearsWeb ==
    \A a \in IssuedAccess, c \in ClientTypes :
        \A g \in {Guard(a, NoToken, c, FALSE, "signOut")} :
            (g.out = "allow" /\ g.user # NoUser) =>
                (SignOut(g.user, c, g.sessions).cookies = ClearedCookies
                     <=> c \in WebClients)

\* The pair the guard reads from the request of a client.
Presented(a, r, c) ==
    ExtractTokenFromRequest(ClientRequest(a, r, c, FALSE, "getCurrentUser"))

\* The guard on a non-public route fails with SessionExpired exactly when
\* the lookup of the access token it read returned a row with expiresAt
\* passed and the refresh token it read has no live row.
C19_SessionExpiredAsCoded ==
    \A a \in AccessInputs, r \in RefreshInputs, c \in ClientTypes :
        \A g \in {Guard(a, r, c, FALSE, "getCurrentUser")} :
            LET sa == AccessRowOf(sessions, Presented(a, r, c).accessToken)
                sr == RefreshRowOf(sessions, Presented(a, r, c).refreshToken)
            IN  g.out = "SessionExpired" <=>
                    /\ sa # NoRow /\ sa.expiresAt <= now
                    /\ sr = NoRow \/ sr.refreshExpiresAt <= now

\* C19: on a non-public route the guard fails with SessionExpired exactly
\* when the access token presented was issued by this service but its row
\* is gone (rotated or revoked) or expired and no rotation succeeded, and
\* with Unauthorized only when no usable credentials were presented at
\* all.  Read for the requests the guard turns away and the access token
\* it reads from them: SessionExpired only for such an access token, and
\* for such an access token never Unauthorized.
C19_DenialKinds ==
    \A a \in AccessInputs, r \in RefreshInputs, c \in ClientTypes :
        \A g \in {Guard(a, r, c, FALSE, "getCurrentUser")} :
            LET read == Presented(a, r, c).accessToken
                sa == AccessRowOf(sessions, read)
                dead == /\ read \in IssuedAccess
                        /\ sa = NoRow \/ sa.expiresAt <= now
            IN  /\ g.out = "SessionExpired" => dead
                /\ (dead /\ g.out \in Denials) => g.out = "SessionExpired"

\* C20: refreshTokens with a refresh token whose row exists but whose
\* refreshExpiresAt has passed deletes that row and fails with
\* TokenExpired, and no new session is created.
C20_RefreshExpiredRow ==
    \A t \in IssuedRefresh :
        \A f \in {RefreshTokens(sessions, nextId, now, t)} :
            LET sr == RefreshRowOf(sessions, t)
            IN  (sr # NoRow /\ sr.refreshExpiresAt < now) =>
                    /\ f.err = "TokenExpired"
                    /\ sr.id \notin RowIds(f.sessions)
                    /\ f.nextId = nextId
                    /\ RowIds(f.sessions) \subseteq RowIds(sessions)

\* C21: refreshTokens called with a token whose type is not 'refresh', in
\* particular an access token issued here and not expired, fails with
\* UnauthorizedException and leaves the table as it was; the access and
\* the refresh secret are different values.
C21_RefreshWrongType ==
    /\ AccessSecret # RefreshSecret
    /\ \A t \in Presentable :
           \A f \in {RefreshTokens(sessions, nextId, now, t)} :
               (/\ t.kind = "jwt" /\ t.type # "refresh"
                /\ JwtVerify(t, AccessSecret, now) = "ok")
                   => /\ f.err = "Unauthorized"
                      /\ f.sessions = sessions

\* C22: cryptographic failures are reported as the 401 kinds by verifyToken
\* and by refreshTokens alike: a token past its JWT expiry gives
\* TokenExpired, a token with a bad signature or a malformed payload gives
\* Unauthorized, and neither gives InternalError.
C22_CryptoFailureKinds ==
    \A t \in Presentable :
        \A v \in {VerifyToken(sessions, now, t)} :
        \A f \in {RefreshTokens(sessions, nextId, now, t)} :
            /\ JwtVerify(t, AccessSecret, now) = "TokenExpiredError"
                   => v.err = "TokenExpired"
            /\ JwtVerify(t, AccessSecret, now) = "JsonWebTokenError"
                   => v.err = "Unauthorized"
            /\ JwtVerify(t, RefreshSecret, now) = "TokenExpiredError"
                   => f.err = "TokenExpired"
            /\ JwtVerify(t, RefreshSecret, now) = "JsonWebTokenError"
                   => f.err = "Unauthorized"

\* verifyToken reports its own cryptographic failures as claimed.
C22_VerifyTokenKinds ==
    \A t \in Presentable :
        \A v \in {VerifyToken(sessions, now, t)} :
            /\ JwtVerify(t, AccessSecret, now) = "TokenExpiredError"
                   => v.err = "TokenExpired"
            /\ JwtVerify(t, AccessSecret, now) = "JsonWebTokenError"
                   => v.err = "Unauthorized"

(* ------------------------- the store failing --------------------------- *)

\* What a prisma call throws when the database fails: an Error that is no
\* AppException, whose message may or may not hold the word 'expired'.
StoreErrors ==
    {[name |-> "PrismaClientKnownRequestError", expired |-> FALSE],
     [name |-> "PrismaClientInitializationError", expired |-> TRUE]}

\* The catch of verifyToken for an error that is no AppException.
CatchVerifyToken(e) ==
    IF e.name = "TokenExpiredError" \/ e.expired THEN "TokenExpired"
    ELSE "Unauthorized"

\* The catch of generateTokens, refreshTokens, revokeToken and
\* revokeAllUserTokens for an error that is no AppException.
CatchService(e) == "InternalError"

TokenOperations ==
    {"generateTokens", "verifyToken", "refreshTokens", "revokeToken",
     "revokeAllUserTokens"}

\* What an operation answers when its prisma call throws e, the checks
\* before that call having passed.
OnStoreError(op, e) ==
    IF op = "verifyToken" THEN CatchVerifyToken(e) ELSE CatchService(e)

\* C23: a failure of the database during any token-lifecycle operation
\* (generateTokens, verifyToken, refreshTokens, revokeToken,
\* revokeAllUserTokens) reaches the caller as InternalError, never as an
\* authentication error.  Stated for the calls that get as far as the
\* database: verifyToken with an access token that passes jwtService.verify.
C23_StoreFailureInternal ==
    \A t \in IssuedAccess : \A e \in StoreErrors : \A op \in TokenOperations :
        JwtVerify(t, AccessSecret, now) = "ok"
            => OnStoreError(op, e) = "InternalError"

\* The row a token string resolves to, by the column of its type.
RowOfToken(S, t) ==
    IF t.kind = "jwt" /\ t.type = "access" THEN AccessRowOf(S, t)
    ELSE RefreshRowOf(S, t)

\* The guard deletes the row of a refresh token it reads when that row's
\* refreshExpiresAt has passed.
C24_GuardPurgesByRefresh ==
    \A r \in IssuedRefresh, c \in WebClients :
        \A g \in {Guard(NoToken, r, c, FALSE, "getCurrentUser")} :
            LET sr == RefreshRowOf(sessions, r)
            IN  (sr # NoRow /\ sr.refreshExpiresAt < now)
                    => sr.id \notin RowIds(g.sessions)

\* C24: lazy purge: whenever a request presents a token (access or
\* refresh, to the guard or to refreshTokens) that resolves to a session
\* row whose refreshExpiresAt is in the past, that row has been deleted by
\* the time the request finishes.
C24_LazyPurge ==
    \A t \in issued, c \in WebClients :
        \A g \in {IF t.type = "access"
                  THEN Guard(t, NoToken, c, FALSE, "getCurrentUser")
                  ELSE Guard(NoToken, t, c, FALSE, "getCurrentUser")} :
        \A f \in {RefreshTokens(sessions, nextId, now, t)} :
            LET s == RowOfToken(sessions, t)
            IN  (s # NoRow /\ s.refreshExpiresAt < now)
                    => /\ s.id \notin RowIds(g.sessions)
                       /\ t.type = "refresh"
                              => s.id \notin RowIds(f.sessions)

\* C25: the valid-access fast path: on a non-public route, when the row of
\* the access token the guard reads exists with expiresAt in the future,
\* the guard allows the request with the user of the token, sets that
\* row's lastUsedAt and nothing else, and starts no rotation even when a
\* refresh token is there too: no row is created or deleted, no token is
\* minted and no cookie is set.
C25_ValidAccessFastPath ==
    \A a \in IssuedAccess, r \in RefreshInputs, c \in ClientTypes :
        \A g \in {Guard(a, r, c, FALSE, "getCurrentUser")} :
            LET read == Presented(a, r, c).accessToken
                sa == AccessRowOf(sessions, read)
            IN  (sa # NoRow /\ sa.expiresAt > now) =>
                    /\ g.out = "allow"
                    /\ g.path = "access-valid"
                    /\ g.user = read.userId
                    /\ g.sessions = (sessions \ {sa})
                           \cup {[sa EXCEPT !.lastUsedAt = now]}
                    /\ g.nextId = nextId
                    /\ g.minted = {}
                    /\ g.cookies = NoCookies

\* A request was let in by its live access token a second after the
\* sign-in, its row now bearing the new lastUsedAt, while the refresh
\* token of that row is live as well.
WitnessC25 ==
    /\ last.op = "getCurrentUser"
    /\ last.out = "allow"
    /\ last.path = "access-valid"
    /\ now > 0
    /\ \E s \in sessions :
           /\ s.lastUsedAt = now /\ s.expiresAt > now
           /\ s.refreshExpiresAt > now

(* ------------------------- C26: expiry parsing ------------------------- *)

\* Duration strings handed to the parsers: the configured ones and strings
\* the pattern /^(\d+)([smhd])$/ rejects (no unit, no digits, a wrong unit,
\* a sign, the empty string).
ExpirySamples ==
    {cf.access : cf \in Configs} \cup {cf.refresh : cf \in Configs}
        \cup {<<"1", "h">>, <<"1", "5">>, <<"m">>, <<"1", "w">>,
              <<"-", "1", "s">>, <<"1", "s", " ">>, Unset}

\* The fallbacks named for a string that does not match, in seconds.
FallbackSeconds(which) ==
    IF which = "access" THEN ExpirySeconds(DefaultAccessExpiry)
    ELSE ExpirySeconds(DefaultRefreshExpiry)

\* C26 (matching half): for a string that matches the pattern every parser
\* yields value times unit: parseExpiry the instant that far from now,
\* parseExpiryToMs that many milliseconds.
C26_MatchingParsed ==
    \A e \in ExpirySamples :
        MatchExpiry(e) =>
            /\ ParseExpiry(e, now) = now + ExpirySeconds(e)
            /\ ParseExpiryToMs(e) = 1000 * ExpirySeconds(e)

\* C26: expiry parsing never throws: for a string that does not match, every
\* parser (parseExpiry of the token service, parseExpiryToMs of the guard
\* and of the controller) falls back to 15 minutes for the access token and
\* to 7 days for the refresh token; for a matching string it yields value
\* times unit.
C26_ExpiryParsingFallsBack ==
    /\ C26_MatchingParsed
    /\ \A e \in ExpirySamples : \A which \in {"access", "refresh"} :
           ~MatchExpiry(e) =>
               /\ ParseExpiry(e, now) # Threw
               /\ ParseExpiry(e, now) = now + FallbackSeconds(which)
               /\ ParseExpiryToMs(e) = 1000 * FallbackSeconds(which)

(* ------------------------ C27: failed rotations ------------------------ *)

\* C27 (guard half): when the issuance fails in the guard's rotation, which
\* issues before it deletes, the request is refused, the table is as it
\* was and the row of the presented refresh token is still there.
C27_GuardRotationAtomic ==
    \A r \in IssuedRefresh, c \in ClientTypes :
        \A g \in {Guard(NoToken, r, c, FALSE, "getCurrentUser")} :
            (g.path = "rotation-failed" /\ g.minted = {}) =>
                /\ RefreshRowOf(sessions, r) # NoRow
                /\ g.sessions = sessions
                /\ RefreshRowOf(g.sessions, r) = RefreshRowOf(sessions, r)

\* C27: a failed rotation is atomic: when the issuance of the new pair
\* fails during a rotation, the old row is still present and the old
\* refresh token can be used again, in refreshTokens (which deletes before
\* it issues) as in the guard (which issues before it deletes).
C27_FailedRotationAtomic ==
    /\ C27_GuardRotationAtomic
    /\ \A r \in IssuedRefresh :
           \A f \in {RefreshTokens(sessions, nextId, now, r)} :
               LET old == RefreshRowOf(sessions, r)
               IN  (/\ JwtVerify(r, RefreshSecret, now) = "ok"
                    /\ old # NoRow
                    /\ ~(old.refreshExpiresAt < now)
                    /\ f.err # "ok") =>
                       /\ old \in f.sessions
                       /\ RefreshRowOf(f.sessions, r) = old

(* ------------------------ C28: global sign-out ------------------------- *)

\* The rotation of process p is not under way: none was started, or it has
\* ended.
AtRest(p) == inflight[p] = Idle \/ inflight[p].pc = "done"

\* C28: a global sign-out is not undone by requests in flight: once
\* revokeAllUserTokens(userId) has returned and every guard rotation and
\* refreshTokens call of that user that was under way has ended (no
\* sign-in having come since), no session row of userId exists.
C28_SignOutNotUndone ==
    (last.op = "revokeAllUserTokens" /\ last.out = "ok"
         /\ \A p \in Procs : AtRest(p)) =>
        {s \in sessions : s.userId = last.user} = {}

(* ------------------------- C29: guard soundness ------------------------ *)

\* Copies of an issued token with the payload or the signature changed:
\* another user, another role, somebody else's key.
Altered(t) ==
    {[t EXCEPT !.key = "attacker"],
     [t EXCEPT !.userId = IF t.userId = "u1" THEN "u2" ELSE "u1"],
     [t EXCEPT !.role = IF t.role = "ADMIN" THEN "CUSTOMER" ELSE "ADMIN"]}

\* Token strings generateTokens has never returned.
NeverIssued ==
    ({Garbage} \cup {Forged(u) : u \in Users}
         \cup UNION {Altered(t) : t \in issued}) \ issued

\* The token is one generateTokens returned and its row is still stored
\* for the user it names.
BackedByRow(t) ==
    /\ t \in issued
    /\ AccessRowOf(sessions, t) # NoRow \/ RefreshRowOf(sessions, t) # NoRow

\* The request was let in with a user, or a row was created or deleted.
Acted(g) ==
    \/ g.out = "allow" /\ g.user # NoUser
    \/ RowIds(g.sessions) # RowIds(sessions)
    \/ g.nextId # nextId

\* C29: soundness of the guard: on a non-public route a request is allowed
\* with a user attached, or creates or deletes a session row, only if one
\* of the tokens it presents is a string generateTokens issued whose row is
\* still stored for the user it names; a request whose tokens were never
\* issued (forged, or an issued token altered) is never let in with a user
\* and leaves the table as it is.
C29_GuardSound ==
    \A a \in AccessInputs \cup NeverIssued,
       r \in RefreshInputs \cup NeverIssued,
       c \in ClientTypes, h \in {"getCurrentUser", "signOut"} :
        \A g \in {Guard(a, r, c, FALSE, h)} :
            /\ Acted(g) =>
                   \/ a # NoToken /\ BackedByRow(a)
                   \/ r # NoToken /\ BackedByRow(r)
            /\ ({a, r} \subseteq NeverIssued \cup {NoToken}) =>
                   /\ ~(g.out = "allow" /\ g.user # NoUser)
                   /\ g.sessions = sessions
                   /\ g.nextId = nextId
                   /\ g.minted = {}
                   /\ g.cookies = NoCookies

\* A web request with a forged access token naming u1 is refused with
\* Unauthorized while a live row of u1 is stored, and a request has just
\* been turned away so.
WitnessC29 ==
    /\ last.op = "getCurrentUser"
    /\ last.out = "Unauthorized"
    /\ last.path = "no-refresh-token"
    /\ \E s \in sessions : s.userId = "u1" /\ s.expiresAt > now
    /\ Guard(Forged("u1"), NoToken, "expo-web", FALSE,
             "getCurrentUser").out = "Unauthorized"

(* ----------------------- C30: issuance always works -------------------- *)

\* C30: every generateTokens call made while the store is available
\* succeeds and adds exactly one new row, whose token hashes differ from
\* those of every stored row, also when the same user was issued a pair
\* earlier in the same clock second.
C30_IssuanceSucceeds ==
    \A u \in Users :
        \A t \in {GenerateTokens(sessions, nextId, now, u, Email(u),
                                 Role(u))} :
            /\ t.err = "ok"
            /\ Cardinality(t.sessions \ sessions) = 1
            /\ sessions \subseteq t.sessions
            /\ \A new \in t.sessions \ sessions : \A s \in sessions :
                   new.token # s.token /\ new.refreshToken # s.refreshToken

\* C30 (apart from the same second): a call for a user who holds no row
\* issued in this second succeeds and adds exactly one row with fresh
\* hashes.
C30_IssuanceOtherSeconds ==
    \A u \in Users :
        \A t \in {GenerateTokens(sessions, nextId, now, u, Email(u),
                                 Role(u))} :
            (\A s \in sessions :
                 s.userId = u =>
                     s.expiresAt # ParseExpiry(cfg.access, now)) =>
                /\ t.err = "ok"
                /\ Cardinality(t.sessions \ sessions) = 1
                /\ sessions \subseteq t.sessions
                /\ \A new \in t.sessions \ sessions : \A s \in sessions :
                       new.token # s.token
                           /\ new.refreshToken # s.refreshToken

====
